---- MODULE Spec2Model ----
(***************************************************************************)
(* Shared household grocery list (src/main.py, src/models.py).             *)
(*                                                                         *)
(* The store holds three tables (families, users, items).  Every request   *)
(* (POST /auth, the bot's /start, GET/POST/PUT/DELETE /items) runs as its  *)
(* own task with its own session; a task yields at every `await`, so each  *)
(* awaited store round trip is one step of the model and the steps of two  *)
(* tasks interleave.  A session's pending inserts become visible to other  *)
(* tasks only at its commit; a failed statement rolls the session back.    *)
(*                                                                         *)
(* Python None and an empty result of .first() are the empty set; a value  *)
(* v that is present is the singleton {v}.                                 *)
(***************************************************************************)
EXTENDS Integers, Sequences, FiniteSets, TLC

VARIABLES
    families,      \* the families table: a set of Family rows
    users,         \* the users table: a set of User rows
    items,         \* the items table: a set of Item rows
    nextFamilyId,  \* the next value of the families.id sequence
    req,           \* the request tasks
    out,           \* what the last step sent back to a caller
    createdFor,    \* history: <<family id, telegram id>> per provisioning
    raced          \* history: the running tasks that have raced a first contact

vars == <<families, users, items, nextFamilyId, req, out, createdFor, raced>>

(***************************************************************************)
(* Bounds and input domains.                                               *)
(***************************************************************************)
\* Highest value the families.id sequence hands out.
MaxFamilyId == 3

\* Concurrent request tasks.
Slots == {1, 2}

\* External (telegram) ids, and the accounts the platform knows: an id with
\* its display name.
Tids == {1, 2}
Accounts == {<<1, "ann">>, <<2, "bob">>}

\* The 8-hex-digit invite codes uuid4().hex[:8] can give.
Codes == {"c1", "c2"}

\* The marker token of the invite argument.
Marker == "invite_"

\* Second word of the /start text, as a sequence of tokens; <<>> is "no
\* second word".
StartArgs ==
    {<<>>, <<"c1">>, <<Marker>>, <<Marker, Marker, "c1">>}
        \cup {<<Marker, c>> : c \in Codes}

\* Item ids (chosen by the client), labels and categories.
ItemIds == {"i1", "i2"}
Texts == {"milk", "eggs"}
Categories == {"dairy", "other"}

\* A value that may be None: the empty set, or the singleton of the value.
Optional(S) == {{}} \cup {{v} : v \in S}

\* Bodies of PUT /items/{item_id} (ItemUpdate, src/main.py:49-52).
ItemUpdates == [text : Optional(Texts), is_bought : Optional(BOOLEAN),
                category : Optional(Categories)]

\* Bodies of POST /items (ItemCreate, src/main.py:43-47).
ItemCreates == [id : ItemIds, text : Texts, is_bought : BOOLEAN,
                category : Categories]

\* JSON bodies a client sends to POST /items: is_bought is given or left
\* out.
RawCreates == [id : ItemIds, text : {"milk"}, is_bought : Optional(BOOLEAN),
               category : {"dairy"}]

(***************************************************************************)
(* Rows (src/models.py).                                                   *)
(***************************************************************************)
Family(id, invite_code) == [id |-> id, invite_code |-> invite_code]

User(telegram_id, username, family_id) ==
    [telegram_id |-> telegram_id, username |-> username, family_id |-> family_id]

Item(id, text, is_bought, category, family_id) ==
    [id |-> id, text |-> text, is_bought |-> is_bought,
     category |-> category, family_id |-> family_id]

\* result.scalars().first(): no row, or one of the rows.
First(rows) == IF rows = {} THEN {} ELSE {CHOOSE x \in rows : TRUE}

\* The one element of a singleton.
The(S) == CHOOSE x \in S : TRUE

\* select(User).where(User.telegram_id == telegram_id)
SelectUser(telegram_id) == First({u \in users : u.telegram_id = telegram_id})

\* Mutant of SelectFamilyByCode: the where clause is left out.
SelectFamilyAny(code) == First(families)

\* select(Family).where(Family.invite_code == code)
SelectFamilyByCode(code) == First({f \in families : f.invite_code = code})

\* select(Family).where(Family.id == id)
SelectFamilyById(id) == First({f \in families : f.id = id})

\* select(User).where(User.family_id == family_id), .all()
SelectMembers(family_id) == {u \in users : u.family_id = family_id}

\* Mutant of SelectItems: the family filter is left out.
SelectItemsUnscoped(family_id) == items

\* select(Item).where(Item.family_id == family_id), .all()
SelectItems(family_id) == {i \in items : i.family_id = family_id}

\* Mutant of SelectItemIn: the target is looked up by id alone.
SelectItemInById(table, item_id, family_id) ==
    First({i \in table : i.id = item_id})

\* select(Item).where(Item.id == item_id, Item.family_id == family_id), on a
\* given items table.
SelectItemIn(table, item_id, family_id) ==
    First({i \in table : i.id = item_id /\ i.family_id = family_id})

(***************************************************************************)
(* Constraints of the schema, checked by the store when a row is written.  *)
(***************************************************************************)
\* users.telegram_id is the primary key.
UserKeyTaken(telegram_id) == \E u \in users : u.telegram_id = telegram_id

\* families.invite_code is unique.
InviteCodeTaken(invite_code) == \E f \in families : f.invite_code = invite_code

\* items.id is the primary key.
ItemKeyTaken(id) == \E i \in items : i.id = id

(***************************************************************************)
(* The /start argument.                                                    *)
(***************************************************************************)
\* invite_code and invite_code.startswith("invite_")
HasInvite(arg) == arg # <<>> /\ Head(arg) = Marker

\* invite_code.replace("invite_", ""): every occurrence is removed.
StripMarker(arg) == SelectSeq(arg, LAMBDA t : t # Marker)

(***************************************************************************)
(* Request tasks.  A task that is not running is Idle; a running task      *)
(* holds its inputs, its position (pc) and the objects its session has     *)
(* loaded.  out is what the step just taken sent back to a caller: None,   *)
(* or the finished request with its response.                              *)
(***************************************************************************)
NoBody == [id |-> "", text |-> "", is_bought |-> FALSE, category |-> ""]
NoRaw == [id |-> "", text |-> "", is_bought |-> {}, category |-> ""]
NoUpdates == [text |-> {}, is_bought |-> {}, category |-> {}]

Idle ==
    [op |-> "idle", pc |-> "idle", tid |-> 0, username |-> "", arg |-> <<>>,
     family |-> {}, user |-> {}, new_family |-> {}, body |-> NoBody,
     updates |-> NoUpdates, item_id |-> "", item |-> {}, reply |-> "",
     raw |-> NoRaw]

NoOut ==
    [op |-> "none", tid |-> 0, username |-> "", arg |-> <<>>, body |-> NoBody,
     updates |-> NoUpdates, item_id |-> "", status |-> "", reply |-> "",
     user |-> {}, family |-> {}, members |-> {}, items |-> {}, raw |-> NoRaw]

InFlight(s) == req[s].pc # "idle"

\* A step's effect on its task: the task's next record and what is sent.
Continue(r) == [req |-> r, out |-> NoOut]

\* The handler returns: the session closes and the response goes out.
Respond(r, status, reply, user, family, members, its) ==
    [req |-> Idle,
     out |-> [op |-> r.op, tid |-> r.tid, username |-> r.username,
              arg |-> r.arg, body |-> r.body, updates |-> r.updates,
              item_id |-> r.item_id, status |-> status, reply |-> reply,
              user |-> user, family |-> family, members |-> members,
              items |-> its, raw |-> r.raw]]

\* An exception leaves the handler (IntegrityError, StaleDataError): the
\* session is rolled back and the caller gets a server error; a reply the bot
\* has already sent stays sent.
Raise(r) == Respond(r, "error", r.reply, {}, {}, {}, {})

\* raise HTTPException(status_code=404, detail=...)
NotFound(r, detail) == Respond(r, detail, "", {}, {}, {}, {})

\* The task's lookup has found no User for its id and it has not finished:
\* it is about to insert one.
FirstContact(r) == r.pc \in {"ensure_flush", "ensure_commit", "start_insert"}

\* Two running tasks are first contacts of the same id.
Racing(rs) ==
    \E s, t \in Slots :
        s # t /\ FirstContact(rs[s]) /\ FirstContact(rs[t])
              /\ rs[s].tid = rs[t].tid

Took(s, effect) ==
    LET after == [req EXCEPT ![s] = effect.req] IN
    /\ req' = after
    /\ out' = effect.out
    /\ raced' = IF Racing(after) THEN Slots
                ELSE {t \in raced : after[t].pc # "idle"}

Init ==
    /\ families = {}
    /\ users = {}
    /\ items = {}
    /\ nextFamilyId = 1
    /\ createdFor = {}
    /\ req = [s \in Slots |-> Idle]
    /\ out = NoOut
    /\ raced = {}

(***************************************************************************)
(* ensure_user_and_family, src/main.py:67-82.  It is awaited by auth_user  *)
(* and by cmd_start; where the caller goes on afterwards depends on op.    *)
(***************************************************************************)
\* The caller's continuation once ensure_user_and_family has returned user:
\* auth_user goes on to line 143, cmd_start has nothing left to do (its
\* reply on line 121 is sent before the call, the one on line 126 after).
EnsureReturn(r, user) ==
    IF r.op = "auth"
    THEN Continue([r EXCEPT !.pc = "auth_family", !.user = user,
                            !.new_family = {}])
    ELSE Respond(r, "ok", IF r.reply = "invalid" THEN "invalid" ELSE "welcome",
                 user, {}, {}, {})

\* Lines 68-71: look the user up.
EnsureSelect(s) ==
    /\ req[s].pc = "ensure_select"
    /\ LET user == SelectUser(req[s].tid) IN
         Took(s, IF user # {} THEN EnsureReturn(req[s], user)
                 ELSE Continue([req[s] EXCEPT !.pc = "ensure_flush"]))
    /\ UNCHANGED <<families, users, items, nextFamilyId, createdFor>>

\* Another session holds an uncommitted family row with this invite code: the
\* unique index makes this insert wait for that session to end.
CodePending(s, code) ==
    \E t \in Slots \ {s} :
        \E f \in req[t].new_family : f.invite_code = code

\* Lines 73-76: uuid4().hex[:8] is any code; the family row is inserted in the
\* session's transaction and gets its id from the sequence, which moves on
\* whether or not the insert succeeds.
EnsureFlush(s) ==
    /\ req[s].pc = "ensure_flush"
    /\ nextFamilyId <= MaxFamilyId
    /\ \E c \in Codes :
         /\ ~CodePending(s, <<c>>)
         /\ Took(s, IF InviteCodeTaken(<<c>>) THEN Raise(req[s])
                    ELSE Continue([req[s] EXCEPT
                           !.pc = "ensure_commit",
                           !.new_family = {Family(nextFamilyId, <<c>>)}]))
    /\ nextFamilyId' = nextFamilyId + 1
    /\ UNCHANGED <<families, users, items, createdFor>>

\* Mutant of EnsureCommit: session.merge(user) in place of session.add(user),
\* so that a row with the same telegram_id is overwritten.
EnsureCommitMerge(s) ==
    /\ req[s].pc = "ensure_commit"
    /\ LET r == req[s]
           f == The(r.new_family)
           u == User(r.tid, r.username, f.id)
       IN /\ families' = families \cup {f}
          /\ users' = {v \in users : v.telegram_id # r.tid} \cup {u}
          /\ createdFor' = createdFor \cup {<<f.id, r.tid>>}
          /\ Took(s, EnsureReturn(r, {u}))
    /\ UNCHANGED <<items, nextFamilyId>>

\* Mutant of EnsureCommit: the flush of line 76 is skipped, so new_family.id
\* is still None (0) when line 78 reads it.
EnsureCommitUnflushed(s) ==
    /\ req[s].pc = "ensure_commit"
    /\ LET r == req[s]
           f == The(r.new_family)
           u == User(r.tid, r.username, 0)
       IN IF UserKeyTaken(r.tid)
          THEN /\ Took(s, Raise(r))
               /\ UNCHANGED <<families, users, createdFor>>
          ELSE /\ families' = families \cup {f}
               /\ users' = users \cup {u}
               /\ createdFor' = createdFor \cup {<<f.id, r.tid>>}
               /\ Took(s, EnsureReturn(r, {u}))
    /\ UNCHANGED <<items, nextFamilyId>>

\* Lines 78-80: insert the user row and commit family and user together; a
\* duplicate telegram_id fails the insert and nothing is committed.
EnsureCommit(s) ==
    /\ req[s].pc = "ensure_commit"
    /\ LET r == req[s]
           f == The(r.new_family)
           u == User(r.tid, r.username, f.id)
       IN IF UserKeyTaken(r.tid)
          THEN /\ Took(s, Raise(r))
               /\ UNCHANGED <<families, users, createdFor>>
          ELSE /\ families' = families \cup {f}
               /\ users' = users \cup {u}
               /\ createdFor' = createdFor \cup {<<f.id, r.tid>>}
               /\ Took(s, EnsureReturn(r, {u}))
    /\ UNCHANGED <<items, nextFamilyId>>

(***************************************************************************)
(* POST /auth, src/main.py:138-154.                                        *)
(***************************************************************************)
BeginAuth(s, accounts) ==
    /\ ~InFlight(s)
    /\ \E a \in accounts :
         Took(s, Continue([Idle EXCEPT !.op = "auth", !.pc = "ensure_select",
                                       !.tid = a[1], !.username = a[2]]))
    /\ UNCHANGED <<families, users, items, nextFamilyId, createdFor>>

\* Lines 143-144.
AuthFamily(s) ==
    /\ req[s].pc = "auth_family"
    /\ LET r == req[s]
           family == SelectFamilyById(The(r.user).family_id)
       IN Took(s, IF family = {} THEN Raise(r)
                  ELSE Continue([r EXCEPT !.pc = "auth_members",
                                          !.family = family]))
    /\ UNCHANGED <<families, users, items, nextFamilyId, createdFor>>

\* Lines 147-154.
AuthMembers(s) ==
    /\ req[s].pc = "auth_members"
    /\ LET r == req[s]
           members == SelectMembers(The(r.family).id)
       IN Took(s, Respond(r, "ok", "", r.user, r.family, members, {}))
    /\ UNCHANGED <<families, users, items, nextFamilyId, createdFor>>

(***************************************************************************)
(* The bot's /start, src/main.py:84-126.                                   *)
(***************************************************************************)
\* Lines 89-97 and 124-125.
BeginStart(s, accounts, args) ==
    /\ ~InFlight(s)
    /\ \E a \in accounts, arg \in args :
         Took(s, Continue([Idle EXCEPT
                             !.op = "start",
                             !.pc = IF HasInvite(arg) THEN "start_family"
                                    ELSE "ensure_select",
                             !.tid = a[1], !.username = a[2], !.arg = arg]))
    /\ UNCHANGED <<families, users, items, nextFamilyId, createdFor>>

\* Lines 99-102 and 120-123.
StartFamily(s) ==
    /\ req[s].pc = "start_family"
    /\ LET r == req[s]
           family == SelectFamilyByCode(StripMarker(r.arg))
       IN Took(s, Continue(IF family # {}
                           THEN [r EXCEPT !.pc = "start_user",
                                          !.family = family]
                           ELSE [r EXCEPT !.pc = "ensure_select",
                                          !.reply = "invalid"]))
    /\ UNCHANGED <<families, users, items, nextFamilyId, createdFor>>

\* Mutant of StartUser: the comparison of line 108 is left out, every known
\* user is moved.
StartUserAlwaysMoves(s) ==
    /\ req[s].pc = "start_user"
    /\ LET r == req[s]
           user == SelectUser(r.tid)
       IN Took(s, IF user = {}
                  THEN Continue([r EXCEPT !.pc = "start_insert"])
                  ELSE Continue([r EXCEPT !.pc = "start_update",
                                          !.user = user]))
    /\ UNCHANGED <<families, users, items, nextFamilyId, createdFor>>

\* Lines 104-108 and 112-114.
StartUser(s) ==
    /\ req[s].pc = "start_user"
    /\ LET r == req[s]
           user == SelectUser(r.tid)
       IN Took(s, IF user = {}
                  THEN Continue([r EXCEPT !.pc = "start_insert"])
                  ELSE IF The(user).family_id # The(r.family).id
                  THEN Continue([r EXCEPT !.pc = "start_update",
                                          !.user = user])
                  ELSE Respond(r, "ok", "already", user, {}, {}, {}))
    /\ UNCHANGED <<families, users, items, nextFamilyId, createdFor>>

\* Mutant of StartUpdate: the commit of line 110 is left out, the reply is
\* sent and the session closes without the row having been written.
StartUpdateUncommitted(s) ==
    /\ req[s].pc = "start_update"
    /\ LET r == req[s]
           fid == The(r.family).id
       IN Took(s, Respond(r, "ok", "joined",
                          {[The(r.user) EXCEPT !.family_id = fid]},
                          {}, {}, {}))
    /\ UNCHANGED <<families, users, items, nextFamilyId, createdFor>>

\* Mutant of StartUpdate: the user's items move along, the items of the
\* family that is left are rewritten to the family that is joined.
StartUpdateMovesItems(s) ==
    /\ req[s].pc = "start_update"
    /\ LET r == req[s]
           fid == The(r.family).id
           old == The(r.user).family_id
       IN /\ users' = {IF u.telegram_id = r.tid
                       THEN [u EXCEPT !.family_id = fid] ELSE u : u \in users}
          /\ items' = {IF i.family_id = old
                       THEN [i EXCEPT !.family_id = fid] ELSE i : i \in items}
          /\ Took(s, Respond(r, "ok", "joined",
                             {[The(r.user) EXCEPT !.family_id = fid]},
                             {}, {}, {}))
    /\ UNCHANGED <<families, nextFamilyId, createdFor>>

\* Lines 109-111: UPDATE users SET family_id WHERE telegram_id, committed.
StartUpdate(s) ==
    /\ req[s].pc = "start_update"
    /\ LET r == req[s]
           fid == The(r.family).id
       IN /\ users' = {IF u.telegram_id = r.tid
                       THEN [u EXCEPT !.family_id = fid] ELSE u : u \in users}
          /\ Took(s, Respond(r, "ok", "joined",
                             {[The(r.user) EXCEPT !.family_id = fid]},
                             {}, {}, {}))
    /\ UNCHANGED <<families, items, nextFamilyId, createdFor>>

\* Lines 116-119: INSERT the user into the invited family, committed.
StartInsert(s) ==
    /\ req[s].pc = "start_insert"
    /\ LET r == req[s]
           u == User(r.tid, r.username, The(r.family).id)
       IN IF UserKeyTaken(r.tid)
          THEN /\ Took(s, Raise(r))
               /\ UNCHANGED users
          ELSE /\ users' = users \cup {u}
               /\ Took(s, Respond(r, "ok", "welcome_joined", {u}, {}, {}, {}))
    /\ UNCHANGED <<families, items, nextFamilyId, createdFor>>

(***************************************************************************)
(* The item endpoints, src/main.py:156-221.                                *)
(***************************************************************************)
BeginGetItems(s, tids) ==
    /\ ~InFlight(s)
    /\ \E t \in tids :
         Took(s, Continue([Idle EXCEPT !.op = "get_items", !.pc = "item_user",
                                       !.tid = t]))
    /\ UNCHANGED <<families, users, items, nextFamilyId, createdFor>>

BeginCreateItem(s, tids, bodies) ==
    /\ ~InFlight(s)
    /\ \E t \in tids, b \in bodies :
         Took(s, Continue([Idle EXCEPT !.op = "create_item",
                                       !.pc = "item_user", !.tid = t,
                                       !.body = b]))
    /\ UNCHANGED <<families, users, items, nextFamilyId, createdFor>>

\* ItemCreate(**body), lines 43-47: every field is required, none has a
\* default; a body that lacks one does not parse.
ParseItemCreate(raw) ==
    IF raw.is_bought = {} THEN {}
    ELSE {[id |-> raw.id, text |-> raw.text,
           is_bought |-> The(raw.is_bought), category |-> raw.category]}

\* POST /items as the client sends it, line 168: the body is parsed into
\* ItemCreate before the handler is entered; a body that does not parse is
\* answered 422 and the handler does not run.
PostItems(s, tids, raws) ==
    /\ ~InFlight(s)
    /\ \E t \in tids, raw \in raws :
         LET r == [Idle EXCEPT !.op = "create_item", !.tid = t, !.raw = raw]
             item == ParseItemCreate(raw)
         IN Took(s, IF item = {}
                    THEN Respond(r, "unprocessable", "", {}, {}, {}, {})
                    ELSE Continue([r EXCEPT !.pc = "item_user",
                                            !.body = The(item)]))
    /\ UNCHANGED <<families, users, items, nextFamilyId, createdFor>>

BeginUpdateItem(s, tids, ids, bodies) ==
    /\ ~InFlight(s)
    /\ \E t \in tids, i \in ids, b \in bodies :
         Took(s, Continue([Idle EXCEPT !.op = "update_item",
                                       !.pc = "item_user", !.tid = t,
                                       !.item_id = i, !.updates = b]))
    /\ UNCHANGED <<families, users, items, nextFamilyId, createdFor>>

BeginDeleteItem(s, tids, ids) ==
    /\ ~InFlight(s)
    /\ \E t \in tids, i \in ids :
         Took(s, Continue([Idle EXCEPT !.op = "delete_item",
                                       !.pc = "item_user", !.tid = t,
                                       !.item_id = i]))
    /\ UNCHANGED <<families, users, items, nextFamilyId, createdFor>>

\* Mutant of ItemUser: the check `if not user` is left out, so that
\* user.family_id fails on None with an AttributeError.
ItemUserUnchecked(s) ==
    /\ req[s].pc = "item_user"
    /\ LET r == req[s]
           user == SelectUser(r.tid)
       IN Took(s, IF user = {} THEN Raise(r)
                  ELSE Continue([r EXCEPT
                         !.user = user,
                         !.pc = CASE r.op = "get_items" -> "get_select"
                                  [] r.op = "create_item" -> "create_commit"
                                  [] OTHER -> "item_select"]))
    /\ UNCHANGED <<families, users, items, nextFamilyId, createdFor>>

\* Lines 158-161, 169-172, 187-190, 209-212: the caller's user row.
ItemUser(s) ==
    /\ req[s].pc = "item_user"
    /\ LET r == req[s]
           user == SelectUser(r.tid)
       IN Took(s, IF user = {} THEN NotFound(r, "user_not_found")
                  ELSE Continue([r EXCEPT
                         !.user = user,
                         !.pc = CASE r.op = "get_items" -> "get_select"
                                  [] r.op = "create_item" -> "create_commit"
                                  [] OTHER -> "item_select"]))
    /\ UNCHANGED <<families, users, items, nextFamilyId, createdFor>>

\* Lines 163-165.
GetSelect(s) ==
    /\ req[s].pc = "get_select"
    /\ LET r == req[s] IN
         Took(s, Respond(r, "ok", "", {}, {}, {},
                         SelectItems(The(r.user).family_id)))
    /\ UNCHANGED <<families, users, items, nextFamilyId, createdFor>>

\* Lines 174-180: the row to insert.
NewItem(body, user) ==
    Item(body.id, body.text, body.is_bought, body.category, user.family_id)

\* Mutant of CreateCommit: db.merge(new_item) in place of db.add(new_item),
\* so that a stored row with the same id is overwritten.
CreateCommitMerge(s) ==
    /\ req[s].pc = "create_commit"
    /\ LET r == req[s]
           new_item == NewItem(r.body, The(r.user))
       IN /\ items' = {i \in items : i.id # new_item.id} \cup {new_item}
          /\ Took(s, Respond(r, "ok", "", {}, {}, {}, {new_item}))
    /\ UNCHANGED <<families, users, nextFamilyId, createdFor>>

\* Lines 181-183: INSERT and commit; a duplicate id fails the insert.
CreateCommit(s) ==
    /\ req[s].pc = "create_commit"
    /\ LET r == req[s]
           new_item == NewItem(r.body, The(r.user))
       IN IF ItemKeyTaken(new_item.id)
          THEN /\ Took(s, Raise(r))
               /\ UNCHANGED items
          ELSE /\ items' = items \cup {new_item}
               /\ Took(s, Respond(r, "ok", "", {}, {}, {}, {new_item}))
    /\ UNCHANGED <<families, users, nextFamilyId, createdFor>>

\* Lines 192-195 and 214-217: the target, looked up in the caller's family.
\* Mutant of ItemLookup: an id that exists in another family is answered
\* differently from one that exists nowhere.
ItemLookupForbidden(r, table) ==
    LET item == SelectItemIn(table, r.item_id, The(r.user).family_id)
    IN IF item = {}
       THEN NotFound(r, IF \E i \in table : i.id = r.item_id
                        THEN "forbidden" ELSE "item_not_found")
       ELSE Continue([r EXCEPT
              !.item = item,
              !.pc = IF r.op = "update_item" THEN "update_commit"
                     ELSE "delete_commit"])

ItemLookup(r, table) ==
    LET item == SelectItemIn(table, r.item_id, The(r.user).family_id)
    IN IF item = {} THEN NotFound(r, "item_not_found")
       ELSE Continue([r EXCEPT
              !.item = item,
              !.pc = IF r.op = "update_item" THEN "update_commit"
                     ELSE "delete_commit"])

ItemSelect(s) ==
    /\ req[s].pc = "item_select"
    /\ Took(s, ItemLookup(req[s], items))
    /\ UNCHANGED <<families, users, items, nextFamilyId, createdFor>>

\* Mutant of ApplyUpdates: is_bought is always assigned, a None as False.
ApplyUpdatesResetBought(item, updates) ==
    [item EXCEPT
       !.text = IF updates.text # {} THEN The(updates.text) ELSE @,
       !.is_bought = IF updates.is_bought # {} THEN The(updates.is_bought)
                     ELSE FALSE,
       !.category = IF updates.category # {} THEN The(updates.category)
                    ELSE @]

\* Lines 197-202: the loaded object with the fields of the body that are not
\* None assigned.
ApplyUpdates(item, updates) ==
    [item EXCEPT
       !.text = IF updates.text # {} THEN The(updates.text) ELSE @,
       !.is_bought = IF updates.is_bought # {} THEN The(updates.is_bought)
                     ELSE @,
       !.category = IF updates.category # {} THEN The(updates.category)
                    ELSE @]

\* The columns the session writes at commit: those whose value differs from
\* the loaded one.
Dirty(loaded, obj) ==
    {c \in {"text", "is_bought", "category"} : obj[c] # loaded[c]}

\* UPDATE items SET <dirty columns> WHERE id = obj.id
WriteColumns(row, obj, dirty) ==
    [c \in DOMAIN row |-> IF c \in dirty THEN obj[c] ELSE row[c]]

\* Lines 204-205: commit.  Nothing is written when no column differs; an
\* UPDATE that matches no row (the item was deleted meanwhile) raises.
UpdateCommit(s) ==
    /\ req[s].pc = "update_commit"
    /\ LET r == req[s]
           loaded == The(r.item)
           obj == ApplyUpdates(loaded, r.updates)
           dirty == Dirty(loaded, obj)
       IN IF dirty # {} /\ ~ItemKeyTaken(obj.id)
          THEN /\ Took(s, Raise(r))
               /\ UNCHANGED items
          ELSE /\ items' = {IF i.id = obj.id THEN WriteColumns(i, obj, dirty)
                            ELSE i : i \in items}
               /\ Took(s, Respond(r, "ok", "", {}, {}, {}, {obj}))
    /\ UNCHANGED <<families, users, nextFamilyId, createdFor>>

\* Mutant of DeleteCommit: delete(Item).where(Item.family_id == ...), the
\* statement removes every item of the target's family.
DeleteCommitWholeFamily(s) ==
    /\ req[s].pc = "delete_commit"
    /\ LET r == req[s] IN
         /\ items' = {i \in items : i.family_id # The(r.item).family_id}
         /\ Took(s, Respond(r, "deleted", "", {}, {}, {}, {}))
    /\ UNCHANGED <<families, users, nextFamilyId, createdFor>>

\* Lines 219-221: DELETE FROM items WHERE id, committed.
DeleteCommit(s) ==
    /\ req[s].pc = "delete_commit"
    /\ LET r == req[s] IN
         /\ items' = {i \in items : i.id # The(r.item).id}
         /\ Took(s, Respond(r, "deleted", "", {}, {}, {}, {}))
    /\ UNCHANGED <<families, users, nextFamilyId, createdFor>>

(***************************************************************************)
(* Specifications.                                                         *)
(***************************************************************************)
\* Steps of a running task.
IdentityStep(s) ==
    \/ EnsureSelect(s)
    \/ EnsureFlush(s)
    \/ EnsureCommit(s)
    \/ AuthFamily(s)
    \/ AuthMembers(s)
    \/ StartFamily(s)
    \/ StartUser(s)
    \/ StartUpdate(s)
    \/ StartInsert(s)

ItemStep(s) ==
    \/ ItemUser(s)
    \/ GetSelect(s)
    \/ CreateCommit(s)
    \/ ItemSelect(s)
    \/ UpdateCommit(s)
    \/ DeleteCommit(s)

\* Identity and join: /auth and /start requests, two at a time, on a store
\* that starts empty.
Next ==
    \E s \in Slots :
        \/ BeginAuth(s, Accounts)
        \/ BeginStart(s, Accounts, StartArgs)
        \/ IdentityStep(s)

Spec == Init /\ [][Next]_vars

\* A store in which ann and bob have each been provisioned with a family of
\* their own (two first contacts, with the codes c1 and c2) and no item has
\* been created yet.
Provisioned ==
    /\ families = {Family(1, <<"c1">>), Family(2, <<"c2">>)}
    /\ users = {User(1, "ann", 1), User(2, "bob", 2)}
    /\ items = {}
    /\ nextFamilyId = 3
    /\ createdFor = {<<1, 1>>, <<2, 2>>}
    /\ req = [s \in Slots |-> Idle]
    /\ out = NoOut
    /\ raced = {}

\* Item bodies of the concurrent runs: one label and one category.
PlainCreates ==
    {b \in ItemCreates :
        b.text = "milk" /\ b.category = "dairy" /\ ~b.is_bought}
PlainUpdates == {u \in ItemUpdates : u.text = {} /\ u.category = {}}

\* The item workflow: two HTTP tasks at a time, the members of two families.
ItemOps(s, callers, creates, updates) ==
    \/ BeginGetItems(s, callers)
    \/ BeginCreateItem(s, callers, creates)
    \/ BeginUpdateItem(s, callers, ItemIds, updates)
    \/ BeginDeleteItem(s, callers, ItemIds)
    \/ ItemStep(s)

ItemNext == \E s \in Slots : ItemOps(s, Tids, PlainCreates, PlainUpdates)

ItemSpec == Provisioned /\ [][ItemNext]_vars

\* Items and joins: an HTTP task (slot 1) beside a bot task (slot 2) that
\* handles /start with the invite code of one of the families.
JoinArgs == {<<Marker, c>> : c \in Codes}

JoinNext ==
    \/ ItemOps(1, Tids, PlainCreates, PlainUpdates)
    \/ BeginStart(2, Accounts, JoinArgs)
    \/ StartFamily(2)
    \/ StartUser(2)
    \/ StartUpdate(2)

JoinSpec == Provisioned /\ [][JoinNext]_vars

\* The item workflow one request at a time, with every body.
SeqNext == ItemOps(1, Tids, ItemCreates, ItemUpdates)

SeqSpec == Provisioned /\ [][SeqNext]_vars

\* A store in which ann alone has been provisioned (one first contact, with
\* the code c1) and bob has not been seen yet.
AnnProvisioned ==
    /\ families = {Family(1, <<"c1">>)}
    /\ users = {User(1, "ann", 1)}
    /\ items = {}
    /\ nextFamilyId = 2
    /\ createdFor = {<<1, 1>>}
    /\ req = [s \in Slots |-> Idle]
    /\ out = NoOut
    /\ raced = {}

\* Sharing a list: /start without a code or with an invite code, and the
\* item requests as the client sends them, one request at a time.
ShareArgs == {<<>>} \cup JoinArgs

ShareNext ==
    \/ BeginStart(1, Accounts, ShareArgs)
    \/ EnsureSelect(1)
    \/ EnsureFlush(1)
    \/ EnsureCommit(1)
    \/ StartFamily(1)
    \/ StartUser(1)
    \/ StartUpdate(1)
    \/ StartInsert(1)
    \/ BeginGetItems(1, Tids)
    \/ PostItems(1, Tids, RawCreates)
    \/ BeginUpdateItem(1, Tids, ItemIds, PlainUpdates)
    \/ BeginDeleteItem(1, Tids, ItemIds)
    \/ ItemStep(1)

ShareSpec == AnnProvisioned /\ [][ShareNext]_vars

(***************************************************************************)
(* Vocabulary of the properties.                                           *)
(***************************************************************************)
\* The step is one of task s.
StepOf(s) == req'[s] # req[s]

\* Task s returns (or raises) in this step; out' is its response.
Ends(s) == req[s].pc # "idle" /\ req'[s].pc = "idle"

\* The call of ensure_user_and_family that task s is in returns or raises in
\* this step.
EnsureEnds(s) ==
    /\ req[s].pc \in {"ensure_flush", "ensure_commit"}
    /\ req'[s].pc \notin {"ensure_flush", "ensure_commit"}

\* The user ensure_user_and_family hands to its caller in this step.
EnsureResult(s) == IF req'[s].pc = "idle" THEN out'.user ELSE req'[s].user

FamiliesCreatedFor(t) == {f \in families : <<f.id, t>> \in createdFor}

UserRows(t) == {u \in users : u.telegram_id = t}

\* The family an invite argument names, if any.
Invited(arg) == {f \in families : f.invite_code = StripMarker(arg)}

(***************************************************************************)
(* Identity resolver and join workflow.                                    *)
(***************************************************************************)
\* C1: a call of ensure_user_and_family that finds no User for its id, on a
\* store that still has none when the call ends, has added exactly one Family
\* and exactly one User referencing it; a call that finds the User adds no
\* row, changes no row and returns that User.
C1_FirstContactAddsOneFamilyOneUser ==
    [][\A s \in Slots :
         LET r == req[s] IN
         /\ (r.pc = "ensure_select" /\ StepOf(s) /\ UserKeyTaken(r.tid))
              => /\ families' = families
                 /\ users' = users
                 /\ EnsureResult(s) = UserRows(r.tid)
         /\ (EnsureEnds(s) /\ ~UserKeyTaken(r.tid))
              => \E f \in families' \ families, u \in users' \ users :
                    /\ families' = families \cup {f}
                    /\ users' = users \cup {u}
                    /\ u.telegram_id = r.tid
                    /\ u.family_id = f.id
                    /\ EnsureResult(s) = {u}]_vars

\* C2: no id ever has two Families created for it, and when the last of two
\* racing first contacts of an id has finished the store holds exactly one
\* User row for the id (and at most one Family created for it).
C2_RacingFirstContactsLeaveOneUser ==
    /\ [](\A t \in Tids : Cardinality(FamiliesCreatedFor(t)) <= 1)
    /\ [][\A s \in raced :
            (Ends(s) /\ raced' = {})
              => /\ Cardinality({u \in users' : u.telegram_id = req[s].tid}) = 1
                 /\ Cardinality({f \in families' :
                                   <<f.id, req[s].tid>> \in createdFor'}) <= 1
        ]_vars

\* C3: every response of POST /auth is a success that carries the caller's
\* user, and the caller has a User row in the store.
C3_AuthNeverFails ==
    out.op = "auth"
      => /\ out.status = "ok"
         /\ UserRows(out.tid) # {}
         /\ \A u \in out.user : u.telegram_id = out.tid
         /\ out.user # {}

\* C4: a /start with the invite code of family F that has completed leaves
\* the user's one row in F, and a /start with that code by a user whose row is
\* in F answers "already a member" and changes no row.
C4_JoinIsIdempotent ==
    /\ [](out.op = "start" /\ out.reply \in {"joined", "welcome_joined", "already"}
            => \E f \in Invited(out.arg) :
                 /\ \A u \in UserRows(out.tid) : u.family_id = f.id
                 /\ Cardinality({u \in SelectMembers(f.id) :
                                   u.telegram_id = out.tid}) = 1)
    /\ [][\A s \in Slots :
            LET r == req[s] IN
            (/\ r.pc = "start_user" /\ StepOf(s)
             /\ \E u \in users : u.telegram_id = r.tid
                                   /\ u.family_id = The(r.family).id)
              => /\ Ends(s)
                 /\ out'.status = "ok"
                 /\ out'.reply = "already"
                 /\ users' = users
                 /\ families' = families
        ]_vars

\* Reached: a user answered "already a member" for a family that was created
\* for somebody else, which the user can only have joined by its invite code.
C4_Witness ==
    /\ out.op = "start"
    /\ out.reply = "already"
    /\ \E f \in Invited(out.arg) : <<f.id, out.tid>> \notin createdFor

\* C5: no step of a /start whose invite code matched no Family changes or
\* removes a Family or User row; for a caller who has a User row it adds
\* nothing, and otherwise it adds nothing or one fresh Family together with
\* one User of the caller that references it.
C5_UnknownCodeKeepsRows ==
    [][\A s \in Slots :
         LET r == req[s] IN
         (r.op = "start" /\ r.reply = "invalid" /\ StepOf(s))
           => /\ families \subseteq families'
              /\ users \subseteq users'
              /\ UserKeyTaken(r.tid)
                   => (families' = families /\ users' = users)
              /\ \/ (families' = families /\ users' = users)
                 \/ \E f \in families' \ families, u \in users' \ users :
                      /\ families' = families \cup {f}
                      /\ users' = users \cup {u}
                      /\ \A g \in families : g.id # f.id
                      /\ u.telegram_id = r.tid
                      /\ u.family_id = f.id
       ]_vars

\* Reached: an unknown code was answered while the other id was provisioned,
\* and the caller, unprovisioned before, got a family of its own.
C5_Witness ==
    /\ out.op = "start"
    /\ out.reply = "invalid"
    /\ out.status = "ok"
    /\ Cardinality(users) = 2
    /\ \E u \in out.user : <<u.family_id, out.tid>> \in createdFor

(***************************************************************************)
(* Item workflow.                                                          *)
(***************************************************************************)
\* The family_id of the caller's User row in the store.
FamilyOf(t) == {u.family_id : u \in UserRows(t)}

\* C6: under every interleaving of item requests of the members of two
\* families, GET /items of a caller whose family is F returns exactly the
\* stored items with family_id = F.
C6_ListIsFamilyScoped ==
    [][\A s \in Slots :
         LET r == req[s] IN
         (r.pc = "get_select" /\ StepOf(s))
           => /\ Ends(s)
              /\ out'.status = "ok"
              /\ \A F \in FamilyOf(r.tid) :
                   /\ out'.items = {i \in items : i.family_id = F}
                   /\ \A i \in out'.items : i.family_id = F
       ]_vars

\* Reached: a list came back non-empty while the other family had an item too.
C6_Witness ==
    /\ out.op = "get_items"
    /\ out.items # {}
    /\ items \ out.items # {}

\* C7: whenever a create, update or delete commits, or a list returns, the
\* items it adds, changes, removes or returns have the family_id the caller's
\* User row has in the store at that moment.
C7_ItemsTouchedOnlyByMembers ==
    [][\A s \in Slots :
         LET r == req[s]
             F == {u.family_id : u \in {v \in users' : v.telegram_id = r.tid}}
         IN
         /\ (r.pc \in {"create_commit", "update_commit", "delete_commit"}
               /\ StepOf(s))
              => \A i \in (items' \ items) \cup (items \ items') :
                   i.family_id \in F
         /\ (r.pc = "get_select" /\ StepOf(s))
              => \A i \in out'.items : i.family_id \in F
       ]_vars

\* C8: an update or delete whose target id exists in a family other than the
\* caller's is answered not-found and changes no row.
C8_ForeignItemIsNotFound ==
    [][\A s \in Slots :
         LET r == req[s] IN
         (/\ r.pc = "item_select" /\ StepOf(s)
          /\ \E i \in items : i.id = r.item_id
                                /\ i.family_id \notin FamilyOf(r.tid))
           => /\ Ends(s)
              /\ out'.status = "item_not_found"
              /\ items' = items
              /\ users' = users
              /\ families' = families
       ]_vars

\* Reached: not-found was answered for an id that is stored.
C8_Witness ==
    /\ out.op \in {"update_item", "delete_item"}
    /\ out.status = "item_not_found"
    /\ ItemKeyTaken(out.item_id)

\* C9: where the target id exists only in another family, the lookup step
\* does to the task, answers the caller and leaves of the other items exactly
\* what it would on the store without that item: not-found, nothing changed.
C9_ForeignItemLooksAbsent ==
    [][\A s \in Slots :
         LET r == req[s]
             foreign == {i \in items : i.id = r.item_id
                                         /\ i.family_id \notin FamilyOf(r.tid)}
             absent == ItemLookup(r, items \ foreign)
         IN
         (r.pc = "item_select" /\ StepOf(s) /\ foreign # {})
           => /\ req'[s] = absent.req
              /\ out' = absent.out
              /\ out'.status = "item_not_found"
              /\ items' \ foreign = items \ foreign
       ]_vars

\* Reached: a delete was answered not-found for an id stored in the other
\* family while the caller's own family had an item.
C9_Witness ==
    /\ out.op = "delete_item"
    /\ out.status = "item_not_found"
    /\ ItemKeyTaken(out.item_id)
    /\ \E F \in FamilyOf(out.tid) : SelectItems(F) # {}

\* The value a column has after an update: the body's when present there,
\* the old one otherwise.
Updated(field, old) == IF field # {} THEN The(field) ELSE old

\* C10: an update of an item of the caller's family replaces the row by one
\* with the same id and family_id in which each of text, is_bought and
\* category has the body's value where the body has one and its old value
\* otherwise; with an empty body the items table is unchanged.
C10_UpdateIsPartial ==
    [][\A s \in Slots :
         LET r == req[s] IN
         (r.pc = "update_commit" /\ StepOf(s))
           => \E old \in items :
                LET new == Item(old.id,
                                Updated(r.updates.text, old.text),
                                Updated(r.updates.is_bought, old.is_bought),
                                Updated(r.updates.category, old.category),
                                old.family_id)
                IN /\ old.id = r.item_id
                   /\ old.family_id \in FamilyOf(r.tid)
                   /\ items' = (items \ {old}) \cup {new}
                   /\ out'.status = "ok"
                   /\ out'.items = {new}
                   /\ r.updates = NoUpdates => items' = items
       ]_vars

\* Reached: an update that set the label and nothing else of an item that is
\* bought and not in the first category.
C10_Witness ==
    /\ out.op = "update_item"
    /\ out.status = "ok"
    /\ out.updates.text # {}
    /\ out.updates.is_bought = {}
    /\ out.updates.category = {}
    /\ \E i \in out.items : i \in items /\ i.is_bought /\ i.category = "other"

(***************************************************************************)
(* Invariants of the store.                                                *)
(***************************************************************************)
\* The Family rows a User row references.
FamiliesOf(u) == {f \in families : f.id = u.family_id}

\* C11: in every reachable state every User row has a family_id that is the
\* id of exactly one Family row of the store.
C11_EveryUserHasOneFamily ==
    \A u \in users : Cardinality(FamiliesOf(u)) = 1

\* Reached: both ids have a row, one provisioned with its own family and the
\* other moved by an invite into a family that was not created for it, while
\* a second family exists.
C11_Witness ==
    /\ Cardinality(users) = 2
    /\ Cardinality(families) = 2
    /\ \E u \in users : <<u.family_id, u.telegram_id>> \notin createdFor
    /\ \A u \in users : Cardinality(FamiliesOf(u)) = 1

(***************************************************************************)
(* Members of one family share one list.                                   *)
(***************************************************************************)
\* The caller of the response was moved into family fid by an invite and
\* shares it with another member.
JoinedShared(t, fid) ==
    /\ FamilyOf(t) = {fid}
    /\ <<fid, t>> \notin createdFor
    /\ Cardinality(SelectMembers(fid)) = 2

\* C12: a /start with the invite code of family FA that has completed leaves
\* the caller's row in FA; a list returns the same set for every member of
\* the caller's family; and a create by a member who joined FA by invite,
\* sent without is_bought, succeeds and leaves the item in FA's list with
\* is_bought = false.
C12_MembersShareOneList ==
    /\ [](out.op = "start" /\ out.reply \in {"joined", "welcome_joined"}
            => \E f \in Invited(out.arg) : FamilyOf(out.tid) = {f.id})
    /\ [][(req[1].pc = "get_select" /\ StepOf(1))
            => \A u \in users :
                 u.family_id \in FamilyOf(req[1].tid)
                   => out'.items = SelectItems(u.family_id)]_vars
    /\ [](\A fid \in FamilyOf(out.tid) :
            (/\ out.op = "create_item"
             /\ out.raw.is_bought = {}
             /\ JoinedShared(out.tid, fid))
              => /\ out.status = "ok"
                 /\ \E i \in SelectItems(fid) :
                      i.id = out.raw.id /\ i.is_bought = FALSE)

(***************************************************************************)
(* Uniqueness conflicts.                                                   *)
(***************************************************************************)
\* C13: with one request served at a time, the insert of the new Family never
\* ends the request with an error (a generated code that is already taken is
\* replaced by another one), and every /start completes successfully with
\* the caller holding a User row.
C13_CodeCollisionIsNotExposed ==
    /\ [][(req[1].pc = "ensure_flush" /\ StepOf(1))
            => ~(Ends(1) /\ out'.status = "error")]_vars
    /\ [](out.op = "start"
            => out.status = "ok" /\ UserRows(out.tid) # {})

\* Task s is a /start whose argument is an invite that names family f.
StartsWithCodeOf(s, f) ==
    /\ req[s].op = "start"
    /\ HasInvite(req[s].arg)
    /\ f.invite_code = StripMarker(req[s].arg)

\* C14: no two Families have the same invite_code; a step that changes the
\* family_id of a User row, or adds a User row in a Family that existed
\* before the step, is the commit of a /start of that user whose argument
\* carries the invite code of that Family; every other step keeps every User
\* row with its family_id.
C14_InviteCodeIsTheOnlyWayIn ==
    /\ [](\A f, g \in families : f.invite_code = g.invite_code => f = g)
    /\ [][\A v \in users' :
            \A f \in families :
              (/\ f.id = v.family_id
               /\ \A u \in users : u.telegram_id = v.telegram_id
                                      => u.family_id # v.family_id)
                => \E s \in Slots :
                     /\ Ends(s)
                     /\ req[s].tid = v.telegram_id
                     /\ req[s].pc \in {"start_update", "start_insert"}
                     /\ StartsWithCodeOf(s, f)
       ]_vars
    /\ [][\A u \in users :
            \E v \in users' :
              /\ v.telegram_id = u.telegram_id
              /\ v.family_id # u.family_id
                   => \E s \in Slots : /\ req[s].pc = "start_update"
                                        /\ req[s].tid = u.telegram_id
                                        /\ StepOf(s)
       ]_vars

\* Reached: a user who had a family of its own was moved by an invite into
\* the family created for the other id, and two families exist.
C14_Witness ==
    /\ out.op = "start"
    /\ out.reply = "joined"
    /\ FamiliesCreatedFor(out.tid) # {}
    /\ \E f \in Invited(out.arg) :
         /\ <<f.id, out.tid>> \notin createdFor
         /\ FamilyOf(out.tid) = {f.id}
    /\ Cardinality(families) = 2

(***************************************************************************)
(* Create and delete.                                                      *)
(***************************************************************************)
\* C15: no two items share an id; the commit of a create whose id is not
\* stored adds exactly one item, with the id, text, is_bought and category of
\* the body and the family_id of the caller's User row, and returns it; the
\* commit of a create whose id is stored, in whichever family, fails and
\* changes no row.
C15_CreateIsNotAMerge ==
    /\ [](\A i, j \in items : i.id = j.id => i = j)
    /\ [][\A s \in Slots :
            LET r == req[s] IN
            (r.pc = "create_commit" /\ StepOf(s))
              => /\ Ends(s)
                 /\ users' = users
                 /\ families' = families
                 /\ IF \E i \in items : i.id = r.body.id
                    THEN /\ out'.status = "error"
                         /\ items' = items
                    ELSE \E F \in FamilyOf(r.tid) :
                           LET new == Item(r.body.id, r.body.text,
                                           r.body.is_bought, r.body.category,
                                           F)
                           IN /\ out'.status = "ok"
                              /\ out'.items = {new}
                              /\ new \notin items
                              /\ items' = items \cup {new}
       ]_vars

\* Reached: a create failed on an id that is stored in the other family, and
\* that item is still there.
C15_Witness ==
    /\ out.op = "create_item"
    /\ out.status = "error"
    /\ \E i \in items : i.id = out.body.id /\ i.family_id \notin FamilyOf(out.tid)

(***************************************************************************)
(* Switching family.                                                       *)
(***************************************************************************)
\* C16: every step of a /start with the invite code of family F (that its
\* lookup has not found unknown), sent by a user whose row is in another
\* family, leaves the Family rows, the Item rows
\* and the other User rows as they are and adds or removes no User row; the
\* request ends with the reply "joined" and the user's row, otherwise the
\* same, has family_id = F.
C16_SwitchMovesOnlyTheUser ==
    [][\A s \in Slots :
         LET r == req[s] IN
         \A f \in Invited(r.arg), u \in UserRows(r.tid) :
           (/\ r.op = "start" /\ HasInvite(r.arg) /\ StepOf(s)
            /\ r.reply # "invalid"
            /\ u.family_id # f.id)
             => /\ families' = families
                /\ items' = items
                /\ users' \ {v \in users' : v.telegram_id = r.tid}
                     = users \ {u}
                /\ IF Ends(s)
                   THEN /\ out'.status = "ok"
                        /\ out'.reply = "joined"
                        /\ users' = (users \ {u})
                                       \cup {[u EXCEPT !.family_id = f.id]}
                   ELSE users' = users
       ]_vars

\* Reached: a user was moved into the other family while an item of the
\* family created for that user is still stored with its family_id.
C16_Witness ==
    /\ out.op = "start"
    /\ out.reply = "joined"
    /\ \E i \in items :
         /\ <<i.family_id, out.tid>> \in createdFor
         /\ i.family_id \notin FamilyOf(out.tid)

\* C17: a /start with the invite code of family F whose lookup found no User
\* row of the caller ends successfully, having added exactly one User row,
\* the caller's, with family_id = F, and no Family row; and a Family row is
\* added only by the provisioning of a request that carries no invite or
\* whose invite code matched no Family.
C17_InvitedFirstContactJoins ==
    /\ [][\A s \in Slots :
            LET r == req[s] IN
            (r.pc = "start_insert" /\ StepOf(s))
              => /\ Ends(s)
                 /\ out'.status = "ok"
                 /\ families' = families
                 /\ \E u \in users' \ users :
                      /\ users' = users \cup {u}
                      /\ u.telegram_id = r.tid
                      /\ u.family_id = The(r.family).id
                      /\ The(r.family) \in Invited(r.arg)
       ]_vars
    /\ [][families' # families
            => \E s \in Slots :
                 /\ req[s].pc = "ensure_commit" /\ StepOf(s)
                 /\ ~HasInvite(req[s].arg) \/ req[s].reply = "invalid"
                 /\ Cardinality(families') = Cardinality(families) + 1
       ]_vars

(***************************************************************************)
(* Unknown callers.                                                        *)
(***************************************************************************)
ItemOperations == {"get_items", "create_item", "update_item", "delete_item"}

\* C18: a list, create, update or delete whose caller has no User row ends at
\* the user lookup with the user-not-found error, and no Family, User or Item
\* row is added, changed or removed.
C18_UnknownCallerIsRejected ==
    [][\A s \in Slots :
         LET r == req[s] IN
         (/\ r.op \in ItemOperations /\ StepOf(s)
          /\ r.pc # "idle" /\ UserRows(r.tid) = {})
           => /\ r.pc = "item_user"
              /\ Ends(s)
              /\ out'.status = "user_not_found"
              /\ out'.items = {}
              /\ families' = families
              /\ users' = users
              /\ items' = items
              /\ nextFamilyId' = nextFamilyId
       ]_vars

\* Reached: a delete of a stored item by a caller who has no User row was
\* answered user-not-found, and the item is still stored.
C18_Witness ==
    /\ out.op = "delete_item"
    /\ out.status = "user_not_found"
    /\ UserRows(out.tid) = {}
    /\ ItemKeyTaken(out.item_id)

(***************************************************************************)
(* Families stay, deleted items go.                                        *)
(***************************************************************************)
\* C19: no step removes or changes a Family row; every Item row references a
\* Family row of the store; the commit of a delete answers "deleted" and
\* removes the row with the target id and no other row, leaving no row with
\* that id; and on a store without a row of an id, a delete of the id is
\* answered not-found and a create of the id succeeds.
C19_FamiliesStayDeletedItemsGo ==
    /\ [][families \subseteq families']_vars
    /\ [](\A i \in items : \E f \in families : f.id = i.family_id)
    /\ [][\A s \in Slots :
            LET r == req[s] IN
            /\ (r.pc = "delete_commit" /\ StepOf(s))
                 => /\ Ends(s)
                    /\ out'.status = "deleted"
                    /\ \E i \in items : /\ i.id = r.item_id
                                          /\ items' = items \ {i}
                    /\ ~\E i \in items' : i.id = r.item_id
            /\ (/\ r.op = "delete_item" /\ r.pc = "item_select" /\ StepOf(s)
                /\ ~ItemKeyTaken(r.item_id))
                 => /\ Ends(s)
                    /\ out'.status = "item_not_found"
                    /\ items' = items
            /\ (/\ r.pc = "create_commit" /\ StepOf(s)
                /\ ~ItemKeyTaken(r.body.id))
                 => /\ out'.status = "ok"
                    /\ \E i \in items' \ items : i.id = r.body.id
       ]_vars

\* Reached: a delete removed its target while an item of another family, in
\* a Family provisioned after the first, is still stored.
C19_Witness ==
    /\ out.op = "delete_item"
    /\ out.status = "deleted"
    /\ ~ItemKeyTaken(out.item_id)
    /\ Cardinality(families) = 2
    /\ \E i \in items : i.family_id \notin FamilyOf(out.tid)

(***************************************************************************)
(* After a switch.                                                         *)
(***************************************************************************)
\* The items of the families the caller is not a member of.
ItemsOfOthers(t) == {i \in items : i.family_id \notin FamilyOf(t)}

\* The User row task s has loaded is the caller's row in the store: the
\* caller has not been moved since the task looked it up.
ReadAfterSwitch(s) == req[s].user # {} /\ req[s].user \subseteq users

\* C20: a switch that answers "joined" has moved the caller's row to the
\* invited family and has left every item stored; and an item request that
\* has read the caller's row since the caller's last switch lists no item of
\* another family, answers not-found to an update or delete of such an item,
\* and leaves every item of another family, with or without members, as it
\* is.
C20_LeftFamilyIsOutOfReach ==
    /\ [](out.op = "start" /\ out.reply = "joined"
            => \E f \in Invited(out.arg) : FamilyOf(out.tid) = {f.id})
    /\ [][\A s \in Slots :
            (req[s].pc = "start_update" /\ StepOf(s)) => items' = items]_vars
    /\ [][\A s \in Slots :
            LET r == req[s] IN
            (r.op \in ItemOperations /\ StepOf(s) /\ ReadAfterSwitch(s))
              => /\ ItemsOfOthers(r.tid) \subseteq items'
                 /\ (items' \ items) \cap {i \in items' : i.family_id
                                              \notin FamilyOf(r.tid)} = {}
                 /\ out'.items \cap ItemsOfOthers(r.tid) = {}
                 /\ \A i \in out'.items : i.family_id \in FamilyOf(r.tid)
                 /\ (/\ r.pc = "item_select"
                     /\ \E i \in ItemsOfOthers(r.tid) : i.id = r.item_id)
                      => /\ Ends(s)
                         /\ out'.status = "item_not_found"
                         /\ items' = items
       ]_vars

\* Reached: a user who has left the family created for it asked to update or
\* delete an item stored in that family, which has no member left, and was
\* answered not-found.
C20_Witness ==
    /\ out.op \in {"update_item", "delete_item"}
    /\ out.status = "item_not_found"
    /\ \E i \in items :
         /\ i.id = out.item_id
         /\ <<i.family_id, out.tid>> \in createdFor
         /\ i.family_id \notin FamilyOf(out.tid)
         /\ SelectMembers(i.family_id) = {}
====
